---- MODULE Spec2Model ----
(***************************************************************************)
(* Model of the subtitle pipeline of VOD_Creator (src/index.js):           *)
(*   correctSubtitles  - the Script Aligner                                *)
(*   convertSrtToAss   - the Styled Caption Compiler, with its helpers     *)
(*                       timeStringToSeconds and processBlock              *)
(*                                                                         *)
(* Text is modelled as a sequence of one-character strings, so that trim,  *)
(* split, includes and the regular expressions of the source are computed  *)
(* character by character.  JavaScript numbers are modelled as exact       *)
(* rationals [n |-> numerator, d |-> denominator] in milliseconds;         *)
(* floating-point rounding is not modelled.                                *)
(***************************************************************************)
EXTENDS Integers, Sequences, FiniteSets, TLC

(***************************************************************************)
(* Bounds                                                                  *)
(***************************************************************************)
\* longest transcript, in lines, given to the aligner
MaxSrtLines == 4
\* longest document, in lines, given to the compiler
MaxAssLines == 4
\* largest hours field of the timing strings given to timeStringToSeconds
MaxHours == 2
\* longest document with malformed timing lines given to the compiler
MaxBadLines == 3
\* longest transcript given to two calls of the aligner in a row
MaxTwiceLines == 3

(***************************************************************************)
(* Characters and strings                                                  *)
(***************************************************************************)
Digits == {"0", "1", "2", "3", "4", "5", "6", "7", "8", "9"}

WhiteSpace == {" ", "\t", "\n", "\r"}

NL == <<"\n">>

ARROW == <<"-", "-", ">">>

SENTENCE_SEP == <<".", " ">>

SPACE == <<" ">>

\* value of one decimal digit character
DigitVal(c) ==
  CASE c = "0" -> 0 [] c = "1" -> 1 [] c = "2" -> 2 [] c = "3" -> 3
    [] c = "4" -> 4 [] c = "5" -> 5 [] c = "6" -> 6 [] c = "7" -> 7
    [] c = "8" -> 8 [] c = "9" -> 9

\* s.substring(from-1, to) : characters from..to (1-based, inclusive)
Sub(s, from, to) == IF from > to THEN <<>> ELSE SubSeq(s, from, to)

\* does pat occur in s at position p (1-based)
OccursAt(s, pat, p) ==
  /\ p >= 1
  /\ p + Len(pat) - 1 <= Len(s)
  /\ \A k \in 1..Len(pat) : s[p + k - 1] = pat[k]

\* String.prototype.indexOf, 1-based; 0 when pat does not occur
IndexOf(s, pat) ==
  LET hits == {p \in 1..Len(s) : OccursAt(s, pat, p)}
  IN  IF hits = {} THEN 0 ELSE CHOOSE p \in hits : \A q \in hits : p <= q

\* String.prototype.includes
includes(s, pat) == IndexOf(s, pat) # 0

\* String.prototype.trim
trim(s) ==
  LET keep == {p \in 1..Len(s) : s[p] \notin WhiteSpace}
  IN  IF keep = {} THEN <<>>
      ELSE LET lo == CHOOSE p \in keep : \A q \in keep : p <= q
               hi == CHOOSE p \in keep : \A q \in keep : p >= q
           IN  SubSeq(s, lo, hi)

\* String.prototype.split with a non-empty separator
RECURSIVE split(_, _)
split(s, sep) ==
  LET p == IndexOf(s, sep)
  IN  IF p = 0 THEN <<s>>
      ELSE <<Sub(s, 1, p - 1)>> \o split(Sub(s, p + Len(sep), Len(s)), sep)

\* Array.prototype.join
RECURSIVE join(_, _)
join(parts, sep) ==
  IF parts = <<>> THEN <<>>
  ELSE IF Len(parts) = 1 THEN parts[1]
  ELSE parts[1] \o sep \o join(Tail(parts), sep)

\* line.match(/^\d+$/)
matchDigits(s) == s # <<>> /\ \A p \in 1..Len(s) : s[p] \in Digits

\* parseInt(s, 10) for a string of decimal digits
RECURSIVE parseInt(_)
parseInt(s) ==
  IF s = <<>> THEN 0
  ELSE 10 * parseInt(SubSeq(s, 1, Len(s) - 1)) + DigitVal(s[Len(s)])

(***************************************************************************)
(* Line classes of correctSubtitles (the if / else-if / else of its loop)  *)
(***************************************************************************)
isTimingLine(l) == includes(l, ARROW)

isContentLine(l) == ~isTimingLine(l) /\ trim(l) # <<>> /\ ~matchDigits(l)

isPassLine(l) == ~isTimingLine(l) /\ ~isContentLine(l)

(***************************************************************************)
(* State                                                                   *)
(***************************************************************************)
VARIABLES
  \* --- correctSubtitles ---
  srtFile,          \* content of the file at srtPath
  scriptFile,       \* content of the file at scriptPath
  apc,              \* position of correctSubtitles: readSrt, readScript, loop, done
  srtData,          \* what the first readFile delivered
  scriptSentences,  \* scriptData.split('. ')
  srtLines,         \* srtData.split('\n')
  correctedSrt,     \* the pieces appended so far; each piece stands for piece + '\n'
  scriptIndex,      \* the cursor into scriptSentences (0-based, as in the source)
  i,                \* the loop index (0-based, as in the source)
  correctedFile,    \* content written to corrected.srt
  \* --- convertSrtToAss ---
  assSrtFile,       \* content of the file at srtPath given to convertSrtToAss
  cpc,              \* position of convertSrtToAss: read, lines, done
  lines,            \* data.split('\n')
  lineNo,           \* number of lines the forEach has consumed
  assBody,          \* the dialogue events appended so far
  startTimeSeconds,
  endTimeSeconds,
  textBuffer,
  lastEndTime,
  flushes,          \* history: one record per emitting call of processBlock
  assFile,          \* lines of the file written at assPath, <<>> before
  \* --- timeStringToSeconds on its own ---
  timeString,       \* the argument
  tpc,              \* "call" before the call, "ret" after it, "fmt" once
                    \* the value returned has been rendered
  seconds,          \* the value returned
  assTime,          \* secondsToAssTime of the value returned, <<>> before
  \* --- correctSubtitles called again ---
  calls,            \* number of calls of correctSubtitles started
  firstFile,        \* what the first call wrote, <<>> before the second call
  \* --- two createFinalVod calls on the same baseDir ---
  parSrt,           \* per run: the transcript generateSubtitles resolved to
  parScript,        \* per run: the text of its script file
  ppc,              \* per run: "align", "read", "write", "burn", "done"
  correctedSrtFile, \* content of outputDir/corrected.srt
  correctedAssFile, \* content of outputDir/corrected.ass
  parData,          \* per run: what convertSrtToAss read from srtPath
  styled,           \* per run: the document its convertSrtToAss wrote
  burned,           \* per run: the document ffmpeg read for its video
  \* --- the files of one createFinalVod call ---
  vpc,              \* the statement createFinalVod is at
  needsResize,      \* the downloaded video is not 9:16
  files,            \* the files that exist
  produced,         \* the files this call has written
  finalRatioVideoPath, \* what checkAndResizeVideo resolved to
  unlinking,        \* files with an fs.unlink under way
  returned,         \* the path createFinalVod resolved to, "" before
  hasMusic,         \* audio/music holds a file
  started,          \* history: the steps started, in order
  completed,        \* history: the steps that completed successfully
  error,            \* the error createFinalVod rejected with, "" if none
  settles,          \* history: calls of resolve and of reject in the promises
                    \* of correctSubtitles and convertSrtToAss
  reported,         \* the error the CLI printed, "" if none
  exitCode          \* the code the CLI exited with, -1 while it has not

alignVars == <<srtFile, scriptFile, apc, srtData, scriptSentences, srtLines,
               correctedSrt, scriptIndex, i, correctedFile>>

assVars == <<assSrtFile, cpc, lines, lineNo, assBody, startTimeSeconds,
             endTimeSeconds, textBuffer, lastEndTime, flushes, assFile>>

timeVars == <<timeString, tpc, seconds, assTime>>

callVars == <<calls, firstFile>>

parVars == <<parSrt, parScript, ppc, correctedSrtFile, correctedAssFile, parData,
             styled, burned>>

vodVars == <<vpc, needsResize, files, produced, finalRatioVideoPath, unlinking,
             returned, hasMusic, started, completed, error, settles, reported,
             exitCode>>

vars == <<alignVars, assVars, timeVars, callVars, parVars, vodVars>>

(***************************************************************************)
(* Inputs of the aligner                                                   *)
(***************************************************************************)
SeqsUpTo(S, n) == UNION {[1..k -> S] : k \in 1..n}

\* "1"
LineIndex == <<"1">>

\* "0:0:1,0 --> 0:0:9,0"
LineTiming == <<"0", ":", "0", ":", "1", ",", "0", " ", "-", "-", ">", " ",
                "0", ":", "0", ":", "9", ",", "0">>

\* "hi"
LineHi == <<"h", "i">>

\* " yo 2"
LineYo == <<" ", "y", "o", " ", "2">>

LineBlank == <<>>

SrtLinePool == {LineIndex, LineTiming, LineHi, LineYo, LineBlank}

SrtFiles == {join(ls, NL) : ls \in SeqsUpTo(SrtLinePool, MaxSrtLines)}

\* "Aa. Bb . Cc. Dd. Ee"
ScriptFive == <<"A", "a", ".", " ", "B", "b", " ", ".", " ", "C", "c", ".", " ",
                "D", "d", ".", " ", "E", "e">>

\* " Aa. Bb"
ScriptTwo == <<" ", "A", "a", ".", " ", "B", "b">>

\* "Aa"
ScriptOne == <<"A", "a">>

\* "Aa.\nBb. 7. x-->y. . Cc"
ScriptOdd == <<"A", "a", ".", "\n", "B", "b", ".", " ", "7", ".", " ",
               "x", "-", "-", ">", "y", ".", " ", ".", " ", "C", "c">>

ScriptFiles == {ScriptFive, ScriptTwo, ScriptOne, ScriptOdd}

(***************************************************************************)
(* correctSubtitles                                                        *)
(***************************************************************************)
AlignIdle ==
  /\ srtFile = <<>> /\ scriptFile = <<>> /\ apc = "idle" /\ srtData = <<>>
  /\ scriptSentences = <<>> /\ srtLines = <<>> /\ correctedSrt = <<>>
  /\ scriptIndex = 0 /\ i = 0 /\ correctedFile = <<>>

AlignInit ==
  /\ srtFile \in SrtFiles
  /\ scriptFile \in ScriptFiles
  /\ apc = "readSrt"
  /\ srtData = <<>>
  /\ scriptSentences = <<>>
  /\ srtLines = <<>>
  /\ correctedSrt = <<>>
  /\ scriptIndex = 0
  /\ i = 0
  /\ correctedFile = <<>>

\* fs.readFile(srtPath, ...) delivers the transcript
AlignReadSrt ==
  /\ apc = "readSrt"
  /\ srtData' = srtFile
  /\ apc' = "readScript"
  /\ UNCHANGED <<srtFile, scriptFile, scriptSentences, srtLines, correctedSrt,
                 scriptIndex, i, correctedFile>>

\* fs.readFile(scriptPath, ...) delivers the script; both texts are split
\* AlignReadScript with the sentences and the cursor kept from an earlier
\* call, as if they were declared outside the function
AlignReadScriptKeep ==
  /\ apc = "readScript"
  /\ scriptSentences' = IF scriptSentences = <<>> THEN split(scriptFile, SENTENCE_SEP)
                        ELSE scriptSentences
  /\ srtLines' = split(srtData, NL)
  /\ correctedSrt' = <<>>
  /\ scriptIndex' = scriptIndex
  /\ i' = 0
  /\ apc' = "loop"
  /\ UNCHANGED <<srtFile, scriptFile, srtData, correctedFile>>

AlignReadScript ==
  /\ apc = "readScript"
  /\ scriptSentences' = split(scriptFile, SENTENCE_SEP)
  /\ srtLines' = split(srtData, NL)
  /\ correctedSrt' = <<>>
  /\ scriptIndex' = 0
  /\ i' = 0
  /\ apc' = "loop"
  /\ UNCHANGED <<srtFile, scriptFile, srtData, correctedFile>>

\* the line the loop is at
curLine == srtLines[i + 1]

InLoop == apc = "loop" /\ i < Len(srtLines)

\* if (srtLines[i].includes('-->'))
AlignKeepTiming ==
  /\ InLoop
  /\ includes(curLine, ARROW)
  /\ correctedSrt' = Append(correctedSrt, curLine)
  /\ i' = i + 1
  /\ UNCHANGED <<srtFile, scriptFile, apc, srtData, scriptSentences, srtLines,
                 scriptIndex, correctedFile>>

\* AlignReplace with the trim() forgotten
AlignReplaceNoTrim ==
  /\ InLoop
  /\ ~includes(curLine, ARROW)
  /\ trim(curLine) # <<>> /\ ~matchDigits(curLine)
  /\ scriptIndex < Len(scriptSentences)
  /\ correctedSrt' = Append(correctedSrt, scriptSentences[scriptIndex + 1])
  /\ scriptIndex' = scriptIndex + 1
  /\ i' = i + 1
  /\ UNCHANGED <<srtFile, scriptFile, apc, srtData, scriptSentences, srtLines,
                 correctedFile>>

\* else if (trim && !digits), with a sentence left
AlignReplace ==
  /\ InLoop
  /\ ~includes(curLine, ARROW)
  /\ trim(curLine) # <<>> /\ ~matchDigits(curLine)
  /\ scriptIndex < Len(scriptSentences)
  /\ correctedSrt' = Append(correctedSrt, trim(scriptSentences[scriptIndex + 1]))
  /\ scriptIndex' = scriptIndex + 1
  /\ i' = i + 1
  /\ UNCHANGED <<srtFile, scriptFile, apc, srtData, scriptSentences, srtLines,
                 correctedFile>>

\* AlignExhausted with the cursor still advanced
AlignExhaustedAdvance ==
  /\ InLoop
  /\ ~includes(curLine, ARROW)
  /\ trim(curLine) # <<>> /\ ~matchDigits(curLine)
  /\ ~(scriptIndex < Len(scriptSentences))
  /\ scriptIndex' = scriptIndex + 1
  /\ i' = i + 1
  /\ UNCHANGED <<srtFile, scriptFile, apc, srtData, scriptSentences, srtLines,
                 correctedSrt, correctedFile>>

\* else if (trim && !digits), with no sentence left: nothing is appended
AlignExhausted ==
  /\ InLoop
  /\ ~includes(curLine, ARROW)
  /\ trim(curLine) # <<>> /\ ~matchDigits(curLine)
  /\ ~(scriptIndex < Len(scriptSentences))
  /\ i' = i + 1
  /\ UNCHANGED <<srtFile, scriptFile, apc, srtData, scriptSentences, srtLines,
                 correctedSrt, scriptIndex, correctedFile>>

\* AlignPass with the index-line test of the else-if lost: a line that is
\* not blank is replaced like a content line
AlignPassReplaceIndex ==
  /\ InLoop
  /\ ~includes(curLine, ARROW)
  /\ ~(trim(curLine) # <<>> /\ ~matchDigits(curLine))
  /\ IF trim(curLine) # <<>> /\ scriptIndex < Len(scriptSentences)
     THEN /\ correctedSrt' = Append(correctedSrt, trim(scriptSentences[scriptIndex + 1]))
          /\ scriptIndex' = scriptIndex + 1
     ELSE /\ correctedSrt' = Append(correctedSrt, curLine)
          /\ scriptIndex' = scriptIndex
  /\ i' = i + 1
  /\ UNCHANGED <<srtFile, scriptFile, apc, srtData, scriptSentences, srtLines,
                 correctedFile>>

\* else
AlignPass ==
  /\ InLoop
  /\ ~includes(curLine, ARROW)
  /\ ~(trim(curLine) # <<>> /\ ~matchDigits(curLine))
  /\ correctedSrt' = Append(correctedSrt, curLine)
  /\ i' = i + 1
  /\ UNCHANGED <<srtFile, scriptFile, apc, srtData, scriptSentences, srtLines,
                 scriptIndex, correctedFile>>

\* the string the pieces stand for
RECURSIVE Flatten(_)
Flatten(pieces) ==
  IF pieces = <<>> THEN <<>> ELSE pieces[1] \o NL \o Flatten(Tail(pieces))

\* fs.writeFile(correctedSrtPath, correctedSrt, ...)
AlignWrite ==
  /\ apc = "loop"
  /\ ~(i < Len(srtLines))
  /\ correctedFile' = Flatten(correctedSrt)
  /\ apc' = "done"
  /\ UNCHANGED <<srtFile, scriptFile, srtData, scriptSentences, srtLines,
                 correctedSrt, scriptIndex, i>>

\* the inputs of two calls in a row
TwiceSrtFiles == {join(ls, NL) : ls \in SeqsUpTo(SrtLinePool, MaxTwiceLines)}

AlignInitTwice ==
  /\ srtFile \in TwiceSrtFiles
  /\ scriptFile \in ScriptFiles
  /\ apc = "readSrt"
  /\ srtData = <<>>
  /\ scriptSentences = <<>>
  /\ srtLines = <<>>
  /\ correctedSrt = <<>>
  /\ scriptIndex = 0
  /\ i = 0
  /\ correctedFile = <<>>

\* correctSubtitles(srtPath, scriptPath, outputDir) is called a second time
\* with the same arguments once the first call has written its file; the
\* function's variables are declared anew by the statements of the call
AlignCallAgain ==
  /\ apc = "done"
  /\ calls = 1
  /\ calls' = 2
  /\ firstFile' = correctedFile
  /\ apc' = "readSrt"
  /\ UNCHANGED <<srtFile, scriptFile, srtData, scriptSentences, srtLines,
                 correctedSrt, scriptIndex, i, correctedFile>>

AlignNext ==
  \/ AlignReadSrt
  \/ AlignReadScript
  \/ AlignKeepTiming
  \/ AlignReplace
  \/ AlignExhausted
  \/ AlignPass
  \/ AlignWrite

(***************************************************************************)
(* Numbers: exact rationals, always in lowest terms with d > 0             *)
(***************************************************************************)
RECURSIVE GCD(_, _)
GCD(a, b) == IF b = 0 THEN a ELSE GCD(b, a % b)

Abs(a) == IF a < 0 THEN -a ELSE a

Rat(n, d) ==
  LET g == GCD(Abs(n), d)
  IN  IF n = 0 THEN [n |-> 0, d |-> 1] ELSE [n |-> n \div g, d |-> d \div g]

Num(k) == Rat(k, 1)

RAdd(a, b) == Rat(a.n * b.d + b.n * a.d, a.d * b.d)

RSub(a, b) == Rat(a.n * b.d - b.n * a.d, a.d * b.d)

\* a * k for an integer k
RMul(a, k) == Rat(a.n * k, a.d)

\* a / k for an integer k > 0
RDiv(a, k) == Rat(a.n, a.d * k)

RLt(a, b) == a.n * b.d < b.n * a.d

RLe(a, b) == a.n * b.d <= b.n * a.d

\* Math.floor(a)
RFloor(a) == a.n \div a.d

Min(a, b) == IF a < b THEN a ELSE b

(***************************************************************************)
(* timeStringToSeconds                                                     *)
(***************************************************************************)
\* end of the longest run of digits of s that starts at p; p - 1 if none
RECURSIVE DigitRunEnd(_, _)
DigitRunEnd(s, p) ==
  IF p <= Len(s) /\ s[p] \in Digits THEN DigitRunEnd(s, p + 1) ELSE p - 1

IsChar(s, p, c) == p <= Len(s) /\ s[p] = c

\* the four groups of /(\d+):(\d+):(\d+),(\d+)/ matched at position p, or <<>>
MatchAt(s, p) ==
  LET e1 == DigitRunEnd(s, p)
      e2 == DigitRunEnd(s, e1 + 2)
      e3 == DigitRunEnd(s, e2 + 2)
      e4 == DigitRunEnd(s, e3 + 2)
  IN  IF /\ e1 >= p     /\ IsChar(s, e1 + 1, ":")
         /\ e2 >= e1 + 2 /\ IsChar(s, e2 + 1, ":")
         /\ e3 >= e2 + 2 /\ IsChar(s, e3 + 1, ",")
         /\ e4 >= e3 + 2
      THEN <<SubSeq(s, p, e1), SubSeq(s, e1 + 2, e2),
             SubSeq(s, e2 + 2, e3), SubSeq(s, e3 + 2, e4)>>
      ELSE <<>>

\* timeString.match(regex): the groups of the leftmost match, <<>> for null
regexMatch(s) ==
  LET hits == {p \in 1..Len(s) : MatchAt(s, p) # <<>>}
  IN  IF hits = {} THEN <<>>
      ELSE MatchAt(s, CHOOSE p \in hits : \A q \in hits : p <= q)

\* timeStringToSeconds with the minutes weighted 100 instead of 60
timeStringToSecondsCentesimal(ts) ==
  LET match == regexMatch(ts)
  IN  IF match = <<>> THEN Num(0)
      ELSE LET hours == parseInt(match[1])
               minutes == parseInt(match[2])
               secs == parseInt(match[3])
               milliseconds == parseInt(match[4])
           IN  RAdd(Num(hours * 3600 + minutes * 100 + secs),
                    RDiv(Num(milliseconds), 1000))

timeStringToSeconds(ts) ==
  LET match == regexMatch(ts)
  IN  IF match = <<>> THEN Num(0)
      ELSE LET hours == parseInt(match[1])
               minutes == parseInt(match[2])
               secs == parseInt(match[3])
               milliseconds == parseInt(match[4])
           IN  RAdd(Num(hours * 3600 + minutes * 60 + secs),
                    RDiv(Num(milliseconds), 1000))

(***************************************************************************)
(* secondsToAssTime                                                        *)
(***************************************************************************)
DigitChar(k) == <<"0", "1", "2", "3", "4", "5", "6", "7", "8", "9">>[k + 1]

\* Number.prototype.toString for a non-negative integer
RECURSIVE toString(_)
toString(k) ==
  IF k < 10 THEN <<DigitChar(k)>> ELSE toString(k \div 10) \o <<DigitChar(k % 10)>>

\* String.prototype.padStart(width, '0')
RECURSIVE padStart(_, _)
padStart(s, width) == IF Len(s) >= width THEN s ELSE padStart(<<"0">> \o s, width)

\* toFixed2 cutting the digits after the hundredths instead of rounding
toFixed2Truncate(x) ==
  LET hundredths == RFloor(RMul(x, 100))
  IN  toString(hundredths \div 100) \o <<".">> \o padStart(toString(hundredths % 100), 2)

\* Number.prototype.toFixed(2) for a non-negative number: the nearest
\* hundredth, the larger one on a tie
toFixed2(x) ==
  LET hundredths == RFloor(RAdd(RMul(x, 100), Rat(1, 2)))
  IN  toString(hundredths \div 100) \o <<".">> \o padStart(toString(hundredths % 100), 2)

\* secondsToAssTime without the padStart of the seconds
secondsToAssTimeNoPad(totalSeconds) ==
  LET hours == RFloor(RDiv(totalSeconds, 3600))
      minutes == RFloor(RDiv(RSub(totalSeconds, Num(3600 * hours)), 60))
      secs == RSub(totalSeconds, Num(60 * RFloor(RDiv(totalSeconds, 60))))
      secondsStr == toFixed2(secs)
  IN  toString(hours) \o <<":">> \o padStart(toString(minutes), 2) \o <<":">> \o secondsStr

secondsToAssTime(totalSeconds) ==
  LET hours == RFloor(RDiv(totalSeconds, 3600))
      minutes == RFloor(RDiv(RSub(totalSeconds, Num(3600 * hours)), 60))
      secs == RSub(totalSeconds, Num(60 * RFloor(RDiv(totalSeconds, 60))))
      secondsStr == padStart(toFixed2(secs), 5)
  IN  toString(hours) \o <<":">> \o padStart(toString(minutes), 2) \o <<":">> \o secondsStr

(***************************************************************************)
(* Inputs of the compiler                                                  *)
(***************************************************************************)
\* "00:00:01,000 --> 00:00:09,000"
LineWin19 == <<"0", "0", ":", "0", "0", ":", "0", "1", ",", "0", "0", "0",
               " ", "-", "-", ">", " ",
               "0", "0", ":", "0", "0", ":", "0", "9", ",", "0", "0", "0">>

\* "0:0:9,0 --> 0:0:12,500"
LineWin912 == <<"0", ":", "0", ":", "9", ",", "0", " ", "-", "-", ">", " ",
                "0", ":", "0", ":", "1", "2", ",", "5", "0", "0">>

\* "0:0:5,0 --> soon" : the end does not parse
LineWinBadEnd == <<"0", ":", "0", ":", "5", ",", "0", " ", "-", "-", ">", " ",
                   "s", "o", "o", "n">>

\* "one two three four five six seven eight"
LineEight == <<"o", "n", "e", " ", "t", "w", "o", " ", "t", "h", "r", "e", "e", " ",
               "f", "o", "u", "r", " ", "f", "i", "v", "e", " ", "s", "i", "x", " ",
               "s", "e", "v", "e", "n", " ", "e", "i", "g", "h", "t">>

\* " a b  c d e" : five words, two spaces after b
LineFive == <<" ", "a", " ", "b", " ", " ", "c", " ", "d", " ", "e">>

AssLinePool == {LineIndex, LineWin19, LineWin912, LineWinBadEnd,
                LineEight, LineFive, LineBlank}

AssSrtFiles == {join(ls, NL) : ls \in SeqsUpTo(AssLinePool, MaxAssLines)}

\* "soon --> late" : neither side parses
LineWinBadBoth == <<"s", "o", "o", "n", " ", "-", "-", ">", " ", "l", "a", "t", "e">>

\* "soon --> 0:0:9,0" : the start does not parse
LineWinBadStart == <<"s", "o", "o", "n", " ", "-", "-", ">", " ",
                     "0", ":", "0", ":", "9", ",", "0">>

BadLinePool == {LineIndex, LineWinBadBoth, LineWinBadStart, LineWinBadEnd,
                LineFive, LineBlank}

BadSrtFiles == {join(ls, NL) : ls \in SeqsUpTo(BadLinePool, MaxBadLines)}

(***************************************************************************)
(* convertSrtToAss                                                         *)
(***************************************************************************)
\* a line of the written file that is not a dialogue event
textLine(s) == [kind |-> "text", text |-> s]

\* the lines of assHeader; the file is assHeader + '\n' + assBody, and a
\* dialogue event of assBody stands for the line
\* Dialogue: layer,startStr,endStr,style,margins,effect,tag text
\* (its fields start and end are the numbers startStr and endStr render)
assHeader ==
  <<textLine("[Script Info]"),
   textLine("Title: Sous-titres TikTok"),
   textLine("ScriptType: v4.00+"),
   textLine("Collisions: Normal"),
   textLine("PlayDepth: 0"),
   textLine("Timer: 100.0000"),
   textLine(""),
   textLine("[V4+ Styles]"),
   textLine("; Format: Name, Fontname, Fontsize, PrimaryColour, SecondaryColour, OutlineColour, BackColour, Bold, Italic, Underline, StrikeOut, ScaleX, ScaleY, Spacing, Angle, BorderStyle, Outline, Shadow, Alignment, MarginL, MarginR, MarginV, Encoding"),
   textLine("Format: Name,Fontname,Fontsize,PrimaryColour,SecondaryColour,OutlineColour,BackColour,Bold,Italic,Underline,StrikeOut,ScaleX,ScaleY,Spacing,Angle,BorderStyle,Outline,Shadow,Alignment,MarginL,MarginR,MarginV,Encoding"),
   textLine("Style: TikTokStyle,Montserrat,12,&H00FFFFFF,&H000000FF,&H00000000,&H64000000,-1,0,0,0,100,100,0,0,1,2,2,2,20,20,50,1"),
   textLine(""),
   textLine("[Events]"),
   textLine("Format: Layer, Start, End, Style, MarginL, MarginR, MarginV, Effect, Text")>>

chunkSize == 4

\* words.slice(from, to) with 0-based from, exclusive to
slice(words, from, to) == Sub(words, from + 1, Min(to, Len(words)))

\* chunkLoop with the loop bound k + chunkSize <= words.length: a last group
\* of fewer than chunkSize words is not emitted
RECURSIVE chunkLoopDropPartial(_, _, _, _, _)
chunkLoopDropPartial(words, startT, endT, k, last) ==
  IF ~(k + chunkSize <= Len(words)) THEN <<>>
  ELSE
    LET totalDuration == RSub(endT, startT)
        timePerWord == RDiv(totalDuration, Len(words))
        chunkWords == join(slice(words, k, k + chunkSize), SPACE)
        chunkStart0 == RAdd(startT, RMul(timePerWord, k))
        chunkEnd0 == RAdd(startT, RMul(timePerWord, Min(k + chunkSize, Len(words))))
        chunkStart == IF RLt(chunkStart0, last) THEN last ELSE chunkStart0
        chunkEnd == IF RLt(endT, chunkEnd0) THEN endT ELSE chunkEnd0
        event == [start |-> chunkStart, end |-> chunkEnd,
                  startStr |-> secondsToAssTime(chunkStart),
                  endStr |-> secondsToAssTime(chunkEnd),
                  text |-> chunkWords,
                  kind |-> "Dialogue", layer |-> "0", style |-> "TikTokStyle",
                  margins |-> "0,0,0", effect |-> "", tag |-> "{\\fad(200,200)}"]
    IN  <<event>> \o chunkLoopDropPartial(words, startT, endT, k + chunkSize, chunkEnd)

\* chunkLoop with every group kept on screen one word longer and the start
\* not clamped to lastEndTime
RECURSIVE chunkLoopLinger(_, _, _, _, _)
chunkLoopLinger(words, startT, endT, k, last) ==
  IF ~(k < Len(words)) THEN <<>>
  ELSE
    LET totalDuration == RSub(endT, startT)
        timePerWord == RDiv(totalDuration, Len(words))
        chunkWords == join(slice(words, k, k + chunkSize), SPACE)
        chunkStart == RAdd(startT, RMul(timePerWord, k))
        chunkEnd0 == RAdd(startT, RMul(timePerWord, Min(k + chunkSize + 1, Len(words))))
        chunkEnd == IF RLt(endT, chunkEnd0) THEN endT ELSE chunkEnd0
        event == [start |-> chunkStart, end |-> chunkEnd,
                  startStr |-> secondsToAssTime(chunkStart),
                  endStr |-> secondsToAssTime(chunkEnd),
                  text |-> chunkWords,
                  kind |-> "Dialogue", layer |-> "0", style |-> "TikTokStyle",
                  margins |-> "0,0,0", effect |-> "", tag |-> "{\\fad(200,200)}"]
    IN  <<event>> \o chunkLoopLinger(words, startT, endT, k + chunkSize, chunkEnd)

\* chunkLoop with timePerWord = totalDuration / (words.length + 1)
RECURSIVE chunkLoopExtraWord(_, _, _, _, _)
chunkLoopExtraWord(words, startT, endT, k, last) ==
  IF ~(k < Len(words)) THEN <<>>
  ELSE
    LET totalDuration == RSub(endT, startT)
        timePerWord == RDiv(totalDuration, Len(words) + 1)
        chunkWords == join(slice(words, k, k + chunkSize), SPACE)
        chunkStart0 == RAdd(startT, RMul(timePerWord, k))
        chunkEnd0 == RAdd(startT, RMul(timePerWord, Min(k + chunkSize, Len(words))))
        chunkStart == IF RLt(chunkStart0, last) THEN last ELSE chunkStart0
        chunkEnd == IF RLt(endT, chunkEnd0) THEN endT ELSE chunkEnd0
        event == [start |-> chunkStart, end |-> chunkEnd,
                  startStr |-> secondsToAssTime(chunkStart),
                  endStr |-> secondsToAssTime(chunkEnd),
                  text |-> chunkWords,
                  kind |-> "Dialogue", layer |-> "0", style |-> "TikTokStyle",
                  margins |-> "0,0,0", effect |-> "", tag |-> "{\\fad(200,200)}"]
    IN  <<event>> \o chunkLoopExtraWord(words, startT, endT, k + chunkSize, chunkEnd)

\* the for loop of processBlock from index k on, lastEndTime being last;
\* gives the events it appends
\* chunkLoop with words.slice(i, i + chunkSize + 1): the first word of the
\* next group is also put in this one
RECURSIVE chunkLoopSliceFive(_, _, _, _, _)
chunkLoopSliceFive(words, startT, endT, k, last) ==
  IF ~(k < Len(words)) THEN <<>>
  ELSE
    LET totalDuration == RSub(endT, startT)
        timePerWord == RDiv(totalDuration, Len(words))
        chunkWords == join(slice(words, k, k + chunkSize + 1), SPACE)
        chunkStart0 == RAdd(startT, RMul(timePerWord, k))
        chunkEnd0 == RAdd(startT, RMul(timePerWord, Min(k + chunkSize, Len(words))))
        chunkStart == IF RLt(chunkStart0, last) THEN last ELSE chunkStart0
        chunkEnd == IF RLt(endT, chunkEnd0) THEN endT ELSE chunkEnd0
        event == [start |-> chunkStart, end |-> chunkEnd,
                  startStr |-> secondsToAssTime(chunkStart),
                  endStr |-> secondsToAssTime(chunkEnd),
                  text |-> chunkWords,
                  kind |-> "Dialogue", layer |-> "0", style |-> "TikTokStyle",
                  margins |-> "0,0,0", effect |-> "", tag |-> "{\\fad(200,200)}"]
    IN  <<event>> \o chunkLoopSliceFive(words, startT, endT, k + chunkSize, chunkEnd)

RECURSIVE chunkLoop(_, _, _, _, _)
chunkLoop(words, startT, endT, k, last) ==
  IF ~(k < Len(words)) THEN <<>>
  ELSE
    LET totalDuration == RSub(endT, startT)
        timePerWord == RDiv(totalDuration, Len(words))
        chunkWords == join(slice(words, k, k + chunkSize), SPACE)
        chunkStart0 == RAdd(startT, RMul(timePerWord, k))
        chunkEnd0 == RAdd(startT, RMul(timePerWord, Min(k + chunkSize, Len(words))))
        chunkStart == IF RLt(chunkStart0, last) THEN last ELSE chunkStart0
        chunkEnd == IF RLt(endT, chunkEnd0) THEN endT ELSE chunkEnd0
        event == [start |-> chunkStart, end |-> chunkEnd,
                  startStr |-> secondsToAssTime(chunkStart),
                  endStr |-> secondsToAssTime(chunkEnd),
                  text |-> chunkWords,
                  kind |-> "Dialogue", layer |-> "0", style |-> "TikTokStyle",
                  margins |-> "0,0,0", effect |-> "", tag |-> "{\\fad(200,200)}"]
    IN  <<event>> \o chunkLoop(words, startT, endT, k + chunkSize, chunkEnd)

\* textBuffer.trim().split(' ')
wordsOf(buffer) == split(trim(buffer), SPACE)

\* processBlock with the new events put in front of assBody
processBlockPrepend ==
  IF textBuffer = <<>>
  THEN [assBody |-> assBody, textBuffer |-> textBuffer,
        lastEndTime |-> lastEndTime, flushes |-> flushes]
  ELSE
    LET words == wordsOf(textBuffer)
        events == chunkLoop(words, startTimeSeconds, endTimeSeconds, 0, lastEndTime)
    IN  [assBody |-> events \o assBody,
         textBuffer |-> <<>>,
         lastEndTime |-> Num(0),
         flushes |-> Append(flushes,
                            [ws |-> startTimeSeconds, we |-> endTimeSeconds,
                             words |-> words, first |-> 1,
                             count |-> Len(events), lastAtEntry |-> lastEndTime,
                             at |-> lineNo])]

\* processBlock without the final lastEndTime = 0
processBlockNoReset ==
  IF textBuffer = <<>>
  THEN [assBody |-> assBody, textBuffer |-> textBuffer,
        lastEndTime |-> lastEndTime, flushes |-> flushes]
  ELSE
    LET words == wordsOf(textBuffer)
        events == chunkLoop(words, startTimeSeconds, endTimeSeconds, 0, lastEndTime)
    IN  [assBody |-> assBody \o events,
         textBuffer |-> <<>>,
         lastEndTime |-> events[Len(events)].end,
         flushes |-> Append(flushes,
                            [ws |-> startTimeSeconds, we |-> endTimeSeconds,
                             words |-> words, first |-> Len(assBody) + 1,
                             count |-> Len(events), lastAtEntry |-> lastEndTime,
                             at |-> lineNo])]

\* processBlock(): the values of assBody, textBuffer, lastEndTime and of the
\* history after the call
processBlock ==
  IF textBuffer = <<>>
  THEN [assBody |-> assBody, textBuffer |-> textBuffer,
        lastEndTime |-> lastEndTime, flushes |-> flushes]
  ELSE
    LET words == wordsOf(textBuffer)
        events == chunkLoop(words, startTimeSeconds, endTimeSeconds, 0, lastEndTime)
    IN  [assBody |-> assBody \o events,
         textBuffer |-> <<>>,
         lastEndTime |-> Num(0),
         flushes |-> Append(flushes,
                            [ws |-> startTimeSeconds, we |-> endTimeSeconds,
                             words |-> words, first |-> Len(assBody) + 1,
                             count |-> Len(events), lastAtEntry |-> lastEndTime,
                             at |-> lineNo])]

AssIdle ==
  /\ assSrtFile = <<>> /\ cpc = "idle" /\ lines = <<>> /\ lineNo = 0
  /\ assBody = <<>> /\ startTimeSeconds = Num(0) /\ endTimeSeconds = Num(0)
  /\ textBuffer = <<>> /\ lastEndTime = Num(0) /\ flushes = <<>>
  /\ assFile = <<>>

AssInit ==
  /\ assSrtFile \in AssSrtFiles
  /\ cpc = "read"
  /\ lines = <<>>
  /\ lineNo = 0
  /\ assBody = <<>>
  /\ startTimeSeconds = Num(0)
  /\ endTimeSeconds = Num(0)
  /\ textBuffer = <<>>
  /\ lastEndTime = Num(0)
  /\ flushes = <<>>
  /\ assFile = <<>>

\* fs.readFile(srtPath, ...) delivers the document; it is split into lines
AssRead ==
  /\ cpc = "read"
  /\ lines' = split(assSrtFile, NL)
  /\ lineNo' = 0
  /\ assBody' = <<>>
  /\ startTimeSeconds' = Num(0)
  /\ endTimeSeconds' = Num(0)
  /\ textBuffer' = <<>>
  /\ lastEndTime' = Num(0)
  /\ cpc' = "lines"
  /\ UNCHANGED <<assSrtFile, assFile, flushes>>

\* the line the forEach is at
line == lines[lineNo + 1]

InForEach == cpc = "lines" /\ lineNo < Len(lines)

\* AssIndexLine taking the index line for the end of the block
AssIndexLineFlush ==
  /\ InForEach
  /\ matchDigits(line)
  /\ LET after == processBlock
     IN  /\ assBody' = after.assBody
         /\ textBuffer' = after.textBuffer
         /\ lastEndTime' = after.lastEndTime
         /\ flushes' = after.flushes
  /\ lineNo' = lineNo + 1
  /\ UNCHANGED <<assSrtFile, assFile, cpc, lines, startTimeSeconds, endTimeSeconds>>

\* if (line.match(/^\d+$/)) return
AssIndexLine ==
  /\ InForEach
  /\ matchDigits(line)
  /\ lineNo' = lineNo + 1
  /\ UNCHANGED <<assSrtFile, assFile, cpc, lines, assBody, startTimeSeconds,
                 endTimeSeconds, textBuffer, lastEndTime, flushes>>

\* AssTimingLine with the new window installed before the pending text is
\* flushed
AssTimingLineEarly ==
  /\ InForEach
  /\ ~matchDigits(line)
  /\ includes(line, ARROW)
  /\ LET times == split(line, ARROW)
         newStart == timeStringToSeconds(trim(times[1]))
         newEnd == timeStringToSeconds(trim(times[2]))
         words == wordsOf(textBuffer)
         events == chunkLoop(words, newStart, newEnd, 0, lastEndTime)
     IN  /\ startTimeSeconds' = newStart
         /\ endTimeSeconds' = newEnd
         /\ IF textBuffer = <<>>
            THEN UNCHANGED <<assBody, textBuffer, lastEndTime, flushes>>
            ELSE /\ assBody' = assBody \o events
                 /\ textBuffer' = <<>>
                 /\ lastEndTime' = Num(0)
                 /\ flushes' = Append(flushes,
                                      [ws |-> newStart, we |-> newEnd,
                                       words |-> words, first |-> Len(assBody) + 1,
                                       count |-> Len(events),
                                       lastAtEntry |-> lastEndTime,
                                       at |-> lineNo])
  /\ lineNo' = lineNo + 1
  /\ UNCHANGED <<assSrtFile, assFile, cpc, lines>>

\* AssTimingLine with the two sides of the timing line taken the wrong way
\* round
AssTimingLineSwapped ==
  /\ InForEach
  /\ ~matchDigits(line)
  /\ includes(line, ARROW)
  /\ LET after == processBlock
         times == split(line, ARROW)
     IN  /\ assBody' = after.assBody
         /\ textBuffer' = after.textBuffer
         /\ lastEndTime' = after.lastEndTime
         /\ flushes' = after.flushes
         /\ startTimeSeconds' = timeStringToSeconds(trim(times[2]))
         /\ endTimeSeconds' = timeStringToSeconds(trim(times[1]))
  /\ lineNo' = lineNo + 1
  /\ UNCHANGED <<assSrtFile, assFile, cpc, lines>>

\* else if (line.includes('-->'))
AssTimingLine ==
  /\ InForEach
  /\ ~matchDigits(line)
  /\ includes(line, ARROW)
  /\ LET after == processBlock
         times == split(line, ARROW)
     IN  /\ assBody' = after.assBody
         /\ textBuffer' = after.textBuffer
         /\ lastEndTime' = after.lastEndTime
         /\ flushes' = after.flushes
         /\ startTimeSeconds' = timeStringToSeconds(trim(times[1]))
         /\ endTimeSeconds' = timeStringToSeconds(trim(times[2]))
  /\ lineNo' = lineNo + 1
  /\ UNCHANGED <<assSrtFile, assFile, cpc, lines>>

\* else if (line.trim())
AssTextLine ==
  /\ InForEach
  /\ ~matchDigits(line)
  /\ ~includes(line, ARROW)
  /\ trim(line) # <<>>
  /\ textBuffer' = textBuffer \o trim(line) \o SPACE
  /\ lineNo' = lineNo + 1
  /\ UNCHANGED <<assSrtFile, assFile, cpc, lines, assBody, startTimeSeconds,
                 endTimeSeconds, lastEndTime, flushes>>

\* else
AssBlankLine ==
  /\ InForEach
  /\ ~matchDigits(line)
  /\ ~includes(line, ARROW)
  /\ trim(line) = <<>>
  /\ LET after == processBlock
     IN  /\ assBody' = after.assBody
         /\ textBuffer' = after.textBuffer
         /\ lastEndTime' = after.lastEndTime
         /\ flushes' = after.flushes
  /\ lineNo' = lineNo + 1
  /\ UNCHANGED <<assSrtFile, assFile, cpc, lines, startTimeSeconds, endTimeSeconds>>

\* after the forEach: the last processBlock(), then the document is written
\* AssFinish without the processBlock() after the forEach
AssFinishNoFlush ==
  /\ cpc = "lines"
  /\ ~(lineNo < Len(lines))
  /\ assFile' = assHeader \o <<textLine("")>> \o assBody
  /\ cpc' = "done"
  /\ UNCHANGED <<assSrtFile, lines, lineNo, startTimeSeconds, endTimeSeconds,
                 assBody, textBuffer, lastEndTime, flushes>>

AssFinish ==
  /\ cpc = "lines"
  /\ ~(lineNo < Len(lines))
  /\ LET after == processBlock
     IN  /\ assBody' = after.assBody
         /\ textBuffer' = after.textBuffer
         /\ lastEndTime' = after.lastEndTime
         /\ flushes' = after.flushes
         /\ assFile' = assHeader \o <<textLine("")>> \o after.assBody
  /\ cpc' = "done"
  /\ UNCHANGED <<assSrtFile, lines, lineNo, startTimeSeconds, endTimeSeconds>>

AssNext ==
  \/ AssRead
  \/ AssIndexLine
  \/ AssTimingLine
  \/ AssTextLine
  \/ AssBlankLine
  \/ AssFinish

(***************************************************************************)
(* timeStringToSeconds applied to one timing string                        *)
(***************************************************************************)
\* the fields of the timing strings tried
HourFields == 0..MaxHours

MinuteFields == {0, 7, 59}

SecondFields == {0, 5, 30, 59}

MilliFields == {0, 5, 40, 500, 999}

\* "HH:MM:SS,mmm"
SrtTime(h, m, sec, ms) ==
  padStart(toString(h), 2) \o <<":">> \o padStart(toString(m), 2) \o <<":">>
    \o padStart(toString(sec), 2) \o <<",">> \o padStart(toString(ms), 3)

TimeStrings ==
  {SrtTime(h, m, sec, ms) :
     h \in HourFields, m \in MinuteFields, sec \in SecondFields, ms \in MilliFields}

TimeIdle == timeString = <<>> /\ tpc = "idle" /\ seconds = Num(0) /\ assTime = <<>>

TimeInit ==
  /\ timeString \in TimeStrings
  /\ tpc = "call"
  /\ seconds = Num(0)
  /\ assTime = <<>>

TimeParse ==
  /\ tpc = "call"
  /\ seconds' = timeStringToSeconds(timeString)
  /\ tpc' = "ret"
  /\ UNCHANGED <<timeString, assTime>>

\* the value parsed from a timing line is rendered, as processBlock renders
\* the start of the first chunk of a block
TimeFormat ==
  /\ tpc = "ret"
  /\ assTime' = secondsToAssTime(seconds)
  /\ tpc' = "fmt"
  /\ UNCHANGED <<timeString, seconds>>

TimeNext == TimeParse \/ TimeFormat

(***************************************************************************)
(* correctSubtitles and convertSrtToAss as functions of the text read      *)
(***************************************************************************)
\* the pieces the loop of correctSubtitles appends from line k + 1 on
RECURSIVE alignLoop(_, _, _, _)
alignLoop(L, S, k, idx) ==
  IF ~(k < Len(L)) THEN <<>>
  ELSE
    LET ln == L[k + 1]
    IN  IF includes(ln, ARROW) THEN <<ln>> \o alignLoop(L, S, k + 1, idx)
        ELSE IF trim(ln) # <<>> /\ ~matchDigits(ln)
        THEN IF idx < Len(S)
             THEN <<trim(S[idx + 1])>> \o alignLoop(L, S, k + 1, idx + 1)
             ELSE alignLoop(L, S, k + 1, idx)
        ELSE <<ln>> \o alignLoop(L, S, k + 1, idx)

\* what correctSubtitles writes for a transcript and a script
correctSubtitlesOf(srtText, scriptText) ==
  Flatten(alignLoop(split(srtText, NL), split(scriptText, SENTENCE_SEP), 0, 0))

\* processBlock on a record of the variables of convertSrtToAss
processBlockOn(st) ==
  IF st.textBuffer = <<>> THEN st
  ELSE [st EXCEPT !.assBody = @ \o chunkLoop(wordsOf(st.textBuffer), st.startTimeSeconds,
                                             st.endTimeSeconds, 0, st.lastEndTime),
                  !.textBuffer = <<>>,
                  !.lastEndTime = Num(0)]

\* the forEach of convertSrtToAss from line k + 1 on
RECURSIVE forEachLine(_, _, _)
forEachLine(L, k, st) ==
  IF ~(k < Len(L)) THEN st
  ELSE
    LET ln == L[k + 1]
    IN  IF matchDigits(ln) THEN forEachLine(L, k + 1, st)
        ELSE IF includes(ln, ARROW)
        THEN LET times == split(ln, ARROW)
             IN  forEachLine(L, k + 1,
                   [processBlockOn(st) EXCEPT
                      !.startTimeSeconds = timeStringToSeconds(trim(times[1])),
                      !.endTimeSeconds = timeStringToSeconds(trim(times[2]))])
        ELSE IF trim(ln) # <<>>
        THEN forEachLine(L, k + 1, [st EXCEPT !.textBuffer = @ \o trim(ln) \o SPACE])
        ELSE forEachLine(L, k + 1, processBlockOn(st))

\* what convertSrtToAss writes for the text it read
convertSrtToAssOf(srtText) ==
  LET st0 == [assBody |-> <<>>, textBuffer |-> <<>>, startTimeSeconds |-> Num(0),
              endTimeSeconds |-> Num(0), lastEndTime |-> Num(0)]
      st == processBlockOn(forEachLine(split(srtText, NL), 0, st0))
  IN  assHeader \o <<textLine("")>> \o st.assBody

(***************************************************************************)
(* Two createFinalVod calls on the same baseDir, from correctSubtitles on  *)
(***************************************************************************)
Runs == {1, 2}

\* transcripts and scripts of the two runs
ParSrtFiles == {join(<<LineTiming, LineHi>>, NL),
                join(<<LineTiming, LineHi, LineYo>>, NL),
                join(<<LineIndex, LineTiming, LineHi>>, NL)}

ParScriptFiles == {ScriptTwo, ScriptOne}

ParIdle ==
  /\ parSrt = <<>> /\ parScript = <<>> /\ ppc = <<>> /\ correctedSrtFile = <<>>
  /\ correctedAssFile = <<>> /\ parData = <<>> /\ styled = <<>> /\ burned = <<>>

\* both runs have their transcript (generateSubtitles has resolved) and are
\* about to call correctSubtitles
ParInit ==
  /\ parSrt \in [Runs -> ParSrtFiles]
  /\ parScript \in [Runs -> ParScriptFiles]
  /\ ppc = [r \in Runs |-> "align"]
  /\ correctedSrtFile = <<>>
  /\ correctedAssFile = <<>>
  /\ parData = [r \in Runs |-> <<>>]
  /\ styled = [r \in Runs |-> <<>>]
  /\ burned = [r \in Runs |-> <<>>]

\* correctSubtitles of run r: its writeFile lands in outputDir/corrected.srt
ParAlignWrite(r) ==
  /\ ppc[r] = "align"
  /\ correctedSrtFile' = correctSubtitlesOf(parSrt[r], parScript[r])
  /\ ppc' = [ppc EXCEPT ![r] = "read"]
  /\ UNCHANGED <<parSrt, parScript, correctedAssFile, parData, styled, burned>>

\* convertSrtToAss of run r: its readFile of outputDir/corrected.srt
ParCompileRead(r) ==
  /\ ppc[r] = "read"
  /\ parData' = [parData EXCEPT ![r] = correctedSrtFile]
  /\ ppc' = [ppc EXCEPT ![r] = "write"]
  /\ UNCHANGED <<parSrt, parScript, correctedSrtFile, correctedAssFile, styled, burned>>

\* convertSrtToAss of run r: its writeFile lands in outputDir/corrected.ass
ParCompileWrite(r) ==
  /\ ppc[r] = "write"
  /\ correctedAssFile' = convertSrtToAssOf(parData[r])
  /\ styled' = [styled EXCEPT ![r] = convertSrtToAssOf(parData[r])]
  /\ ppc' = [ppc EXCEPT ![r] = "burn"]
  /\ UNCHANGED <<parSrt, parScript, correctedSrtFile, parData, burned>>

\* addStyledSubtitlesToVideo of run r: ffmpeg reads outputDir/corrected.ass
ParBurn(r) ==
  /\ ppc[r] = "burn"
  /\ burned' = [burned EXCEPT ![r] = correctedAssFile]
  /\ ppc' = [ppc EXCEPT ![r] = "done"]
  /\ UNCHANGED <<parSrt, parScript, correctedSrtFile, correctedAssFile, parData, styled>>

ParNext ==
  \E r \in Runs :
    \/ ParAlignWrite(r)
    \/ ParCompileRead(r)
    \/ ParCompileWrite(r)
    \/ ParBurn(r)

(***************************************************************************)
(* createFinalVod: the files it writes and deletes                         *)
(***************************************************************************)
\* the paths of createFinalVod
videoPath == "vod/video.mp4"

resizedVideoPath == "output/resized_video.mp4"

mixedAudioPath == "output/mixed_voice.m4a"

subtitlePath == "whisper/mixed_voice.srt"

correctedSubtitlePath == "output/corrected.srt"

styledSubtitlePath == "output/corrected.ass"

\* cut_<basename>, final_<basename>, final_with_subs_final_<basename>
cutVideoPath == IF finalRatioVideoPath = videoPath THEN "output/cut_video.mp4"
                ELSE "output/cut_resized_video.mp4"

finalVideoPath == IF finalRatioVideoPath = videoPath THEN "output/final_video.mp4"
                  ELSE "output/final_resized_video.mp4"

videoWithSubtitlesPath ==
  IF finalRatioVideoPath = videoPath THEN "output/final_with_subs_final_video.mp4"
  ELSE "output/final_with_subs_final_resized_video.mp4"

voicePath == "audio/voice/voice.mp3"

scriptPath == "text/script_original.txt"

\* files an earlier run may have left in the output directory
LeftOvers == {resizedVideoPath, correctedSubtitlePath, styledSubtitlePath}

\* no call of resolve or reject yet
NoSettle == [f \in {"correctSubtitles", "convertSrtToAss"} |->
               [resolve |-> 0, reject |-> 0]]

VodIdle ==
  /\ vpc = "idle" /\ needsResize = FALSE /\ files = {} /\ produced = {}
  /\ finalRatioVideoPath = "" /\ unlinking = {} /\ returned = ""
  /\ hasMusic = FALSE /\ started = <<>> /\ completed = <<>> /\ error = ""
  /\ settles = NoSettle /\ reported = "" /\ exitCode = -1

\* the CLI has written the script file and calls createFinalVod; the voice
\* file and a music file may be there or not
VodInit ==
  /\ vpc = "dirs"
  /\ needsResize \in BOOLEAN
  /\ hasMusic \in BOOLEAN
  /\ files \in {{scriptPath} \cup voice \cup old :
                  voice \in {{}, {voicePath}}, old \in SUBSET LeftOvers}
  /\ produced = {}
  /\ finalRatioVideoPath = ""
  /\ unlinking = {}
  /\ returned = ""
  /\ started = <<>>
  /\ completed = <<>>
  /\ error = ""
  /\ settles = NoSettle
  /\ reported = ""
  /\ exitCode = -1

\* ensureDirectoriesExist([...])
VodEnsureDirs ==
  /\ vpc = "dirs"
  /\ vpc' = "check"
  /\ UNCHANGED <<needsResize, files, produced, finalRatioVideoPath, unlinking,
                 returned, hasMusic, started, completed, error, settles, reported,
                 exitCode>>

\* VodCheckVoice without the test of the voice file
VodCheckVoiceSkip ==
  /\ vpc = "check"
  /\ vpc' = "download"
  /\ UNCHANGED <<needsResize, files, produced, finalRatioVideoPath, unlinking,
                 returned, hasMusic, started, completed, error, settles, reported,
                 exitCode>>

\* if (!fs.existsSync(voicePath)) throw new Error(...)
VodCheckVoice ==
  /\ vpc = "check"
  /\ IF voicePath \in files
     THEN vpc' = "download" /\ error' = error
     ELSE vpc' = "failed" /\ error' = "Fichier voix introuvable"
  /\ UNCHANGED <<needsResize, files, produced, finalRatioVideoPath, unlinking,
                 returned, hasMusic, started, completed, settles, reported,
                 exitCode>>

\* an awaited step that succeeds: it writes the file path and createFinalVod
\* goes on to the statement next
VodWrite(at, path, next) ==
  /\ vpc = at
  /\ files' = files \cup {path}
  /\ produced' = produced \cup {path}
  /\ started' = Append(started, at)
  /\ completed' = Append(completed, at)
  /\ vpc' = next
  /\ UNCHANGED <<needsResize, finalRatioVideoPath, unlinking, returned, hasMusic,
                 error, settles, reported, exitCode>>

\* the steps whose promise is one ffmpeg, ffprobe, yt-dlp or HTTP call
SimpleSteps == {"download", "resize", "probe", "mix", "cut", "merge", "subtitles",
                "burn"}

\* VodFail with the error caught and the call going on to the delete step
VodFailSwallow ==
  /\ vpc \in SimpleSteps
  /\ (vpc = "mix" => hasMusic)
  /\ started' = Append(started, vpc)
  /\ vpc' = "delete"
  /\ UNCHANGED <<needsResize, files, produced, finalRatioVideoPath, unlinking,
                 returned, hasMusic, completed, error, settles, reported, exitCode>>

\* an awaited step rejects: the await throws and createFinalVod rejects
VodFail ==
  /\ vpc \in SimpleSteps
  /\ (vpc = "mix" => hasMusic)
  /\ started' = Append(started, vpc)
  /\ error' = vpc
  /\ vpc' = "failed"
  /\ UNCHANGED <<needsResize, files, produced, finalRatioVideoPath, unlinking,
                 returned, hasMusic, completed, settles, reported, exitCode>>

VodDownload == VodWrite("download", videoPath, "resize")

\* checkAndResizeVideo: resolves inputPath when the ratio is already 9:16
VodResize ==
  /\ vpc = "resize"
  /\ IF needsResize
     THEN /\ files' = files \cup {resizedVideoPath}
          /\ produced' = produced \cup {resizedVideoPath}
          /\ finalRatioVideoPath' = resizedVideoPath
     ELSE /\ finalRatioVideoPath' = videoPath
          /\ UNCHANGED <<files, produced>>
  /\ started' = Append(started, "resize")
  /\ completed' = Append(completed, "resize")
  /\ vpc' = "probe"
  /\ UNCHANGED <<needsResize, unlinking, returned, hasMusic, error, settles,
                 reported, exitCode>>

\* await Promise.all([getFileDuration(voicePath), getFileDuration(...)])
VodProbe ==
  /\ vpc = "probe"
  /\ started' = Append(started, "probe")
  /\ completed' = Append(completed, "probe")
  /\ vpc' = "mix"
  /\ UNCHANGED <<needsResize, files, produced, finalRatioVideoPath, unlinking,
                 returned, hasMusic, error, settles, reported, exitCode>>

\* getRandomMusicFile throws when audio/music is empty
VodNoMusic ==
  /\ vpc = "mix"
  /\ ~hasMusic
  /\ error' = "Aucun fichier musical"
  /\ vpc' = "failed"
  /\ UNCHANGED <<needsResize, files, produced, finalRatioVideoPath, unlinking,
                 returned, hasMusic, started, completed, settles, reported,
                 exitCode>>

VodMix == hasMusic /\ VodWrite("mix", mixedAudioPath, "cut")

VodCut == VodWrite("cut", cutVideoPath, "merge")

VodMerge == VodWrite("merge", finalVideoPath, "subtitles")

VodGenerateSubtitles == VodWrite("subtitles", subtitlePath, "correct")

\* reject(err) is called in the promise of f
rejected(f) == [settles EXCEPT ![f].reject = @ + 1]

\* resolve(path) is called in the promise of f
resolved(f) == [settles EXCEPT ![f].resolve = @ + 1]

\* VodRead with "if (err) reject(err)" and no return: the callback goes on
VodReadNoReturn(at, f, errName, next, first) ==
  /\ vpc = at
  /\ started' = IF first THEN Append(started, f) ELSE started
  /\ \/ /\ vpc' = next
        /\ UNCHANGED <<settles, error>>
     \/ /\ settles' = rejected(f)
        /\ error' = errName
        /\ vpc' = next
  /\ UNCHANGED <<needsResize, files, produced, finalRatioVideoPath, unlinking,
                 returned, hasMusic, completed, reported, exitCode>>

\* a readFile of correctSubtitles or convertSrtToAss: the callback gets the
\* data and goes on to the step next, or gets err and rejects
VodRead(at, f, errName, next, first) ==
  /\ vpc = at
  /\ started' = IF first THEN Append(started, f) ELSE started
  /\ \/ /\ vpc' = next
        /\ UNCHANGED <<settles, error>>
     \/ /\ settles' = rejected(f)
        /\ error' = errName
        /\ vpc' = "failed"
  /\ UNCHANGED <<needsResize, files, produced, finalRatioVideoPath, unlinking,
                 returned, hasMusic, completed, reported, exitCode>>

\* the writeFile of correctSubtitles or convertSrtToAss: the callback
\* resolves, or gets err (the file may have been created) and rejects
VodWriteFile(at, f, errName, path, next) ==
  /\ vpc = at
  /\ \/ /\ files' = files \cup {path}
        /\ produced' = produced \cup {path}
        /\ settles' = resolved(f)
        /\ completed' = Append(completed, f)
        /\ vpc' = next
        /\ error' = error
     \/ /\ \E created \in BOOLEAN :
             /\ files' = IF created THEN files \cup {path} ELSE files
             /\ produced' = IF created THEN produced \cup {path} ELSE produced
        /\ settles' = rejected(f)
        /\ error' = errName
        /\ completed' = completed
        /\ vpc' = "failed"
  /\ UNCHANGED <<needsResize, finalRatioVideoPath, unlinking, returned, hasMusic,
                 started, reported, exitCode>>

\* correctSubtitles: readFile(srtPath), readFile(scriptPath), writeFile
VodCorrectReadSrt ==
  VodRead("correct", "correctSubtitles", "correctSubtitles: srt unreadable",
          "correctScript", TRUE)

VodCorrectReadScript ==
  VodRead("correctScript", "correctSubtitles", "correctSubtitles: script unreadable",
          "correctWrite", FALSE)

VodCorrectSubtitles ==
  VodWriteFile("correctWrite", "correctSubtitles", "correctSubtitles: write failed",
               correctedSubtitlePath, "convert")

\* convertSrtToAss: readFile(srtPath), writeFile
VodConvertRead ==
  VodRead("convert", "convertSrtToAss", "convertSrtToAss: srt unreadable",
          "convertWrite", TRUE)

VodConvertSrtToAss ==
  VodWriteFile("convertWrite", "convertSrtToAss", "convertSrtToAss: write failed",
               styledSubtitlePath, "burn")

VodAddSubtitles == VodWrite("burn", videoWithSubtitlesPath, "delete")

\* deleteFiles([...]): an unlink is started for each listed file that
\* exists; createFinalVod returns without waiting for them
VodDeleteFiles ==
  /\ vpc = "delete"
  /\ unlinking' = {f \in {videoPath, resizedVideoPath, cutVideoPath, mixedAudioPath,
                          finalVideoPath} : f \in files}
  /\ returned' = videoWithSubtitlesPath
  /\ vpc' = "returned"
  /\ UNCHANGED <<needsResize, files, produced, finalRatioVideoPath, hasMusic,
                 started, completed, error, settles, reported, exitCode>>

\* one fs.unlink completes
VodUnlink ==
  /\ vpc = "returned"
  /\ \E f \in unlinking :
       /\ files' = files \ {f}
       /\ unlinking' = unlinking \ {f}
  /\ UNCHANGED <<vpc, needsResize, produced, finalRatioVideoPath, returned,
                 hasMusic, started, completed, error, settles, reported, exitCode>>

\* the catch of the CLI: console.error(err.message); process.exit(1)
VodCliCatch ==
  /\ vpc = "failed"
  /\ reported' = error
  /\ exitCode' = 1
  /\ vpc' = "exited"
  /\ UNCHANGED <<needsResize, files, produced, finalRatioVideoPath, unlinking,
                 returned, hasMusic, started, completed, error, settles>>

VodNext ==
  \/ VodEnsureDirs
  \/ VodCheckVoice
  \/ VodFail
  \/ VodDownload
  \/ VodResize
  \/ VodProbe
  \/ VodNoMusic
  \/ VodMix
  \/ VodCut
  \/ VodMerge
  \/ VodGenerateSubtitles
  \/ VodCorrectReadSrt
  \/ VodCorrectReadScript
  \/ VodCorrectSubtitles
  \/ VodConvertRead
  \/ VodConvertSrtToAss
  \/ VodAddSubtitles
  \/ VodDeleteFiles
  \/ VodUnlink
  \/ VodCliCatch

(***************************************************************************)
(* Specifications                                                          *)
(***************************************************************************)
\* no call of correctSubtitles / its only call
NoCall == calls = 0 /\ firstFile = <<>>

OneCall == calls = 1 /\ firstFile = <<>>

\* two createFinalVod calls whose awaits interleave
InitPar == ParInit /\ AlignIdle /\ AssIdle /\ TimeIdle /\ NoCall /\ VodIdle

NextPar == ParNext /\ UNCHANGED <<alignVars, assVars, timeVars, callVars, vodVars>>

SpecPar == InitPar /\ [][NextPar]_vars

\* one call of createFinalVod
InitVod == VodInit /\ AlignIdle /\ AssIdle /\ TimeIdle /\ NoCall /\ ParIdle

NextVod == VodNext /\ UNCHANGED <<alignVars, assVars, timeVars, callVars, parVars>>

SpecVod == InitVod /\ [][NextVod]_vars

\* one run of correctSubtitles
InitAlign == AlignInit /\ AssIdle /\ TimeIdle /\ OneCall /\ ParIdle /\ VodIdle

NextAlign == AlignNext /\ UNCHANGED <<assVars, timeVars, callVars, parVars, vodVars>>

SpecAlign == InitAlign /\ [][NextAlign]_vars

\* two calls of correctSubtitles in a row on the same two files
InitAlignTwice == AlignInitTwice /\ AssIdle /\ TimeIdle /\ OneCall /\ ParIdle /\ VodIdle

NextAlignTwice ==
  /\ \/ AlignNext /\ UNCHANGED callVars
     \/ AlignCallAgain
  /\ UNCHANGED <<assVars, timeVars, parVars, vodVars>>

SpecAlignTwice == InitAlignTwice /\ [][NextAlignTwice]_vars

\* one run of convertSrtToAss
InitAss == AssInit /\ AlignIdle /\ TimeIdle /\ NoCall /\ ParIdle /\ VodIdle

NextAss == AssNext /\ UNCHANGED <<alignVars, timeVars, callVars, parVars, vodVars>>

SpecAss == InitAss /\ [][NextAss]_vars

\* one run of convertSrtToAss on a document with malformed timing lines
AssInitMalformed ==
  /\ assSrtFile \in BadSrtFiles
  /\ cpc = "read"
  /\ lines = <<>>
  /\ lineNo = 0
  /\ assBody = <<>>
  /\ startTimeSeconds = Num(0)
  /\ endTimeSeconds = Num(0)
  /\ textBuffer = <<>>
  /\ lastEndTime = Num(0)
  /\ flushes = <<>>
  /\ assFile = <<>>

InitAssMalformed == AssInitMalformed /\ AlignIdle /\ TimeIdle /\ NoCall /\ ParIdle /\ VodIdle

SpecAssMalformed == InitAssMalformed /\ [][NextAss]_vars

\* one call of timeStringToSeconds
InitTime == TimeInit /\ AlignIdle /\ AssIdle /\ NoCall /\ ParIdle /\ VodIdle

NextTime == TimeNext /\ UNCHANGED <<alignVars, assVars, callVars, parVars, vodVars>>

SpecTime == InitTime /\ [][NextTime]_vars

(***************************************************************************)
(* Properties of correctSubtitles (checked under SpecAlign)                *)
(*                                                                         *)
(* The output is read as the sequence of pieces the loop writes, one per   *)
(* input line that is written at all.  A piece written for a content line  *)
(* is the trimmed sentence whatever that sentence looks like.              *)
(***************************************************************************)
\* number of content lines among the first k lines of L
contentCount(L, k) == Cardinality({q \in 1..k : isContentLine(L[q])})

\* number of content lines among the first k of L that find none of M
\* sentences left
droppedCount(L, M, k) == contentCount(L, k) - Min(contentCount(L, k), M)

\* the lines and sentences of the two input files
inLines == split(srtFile, NL)

inSentences == split(scriptFile, SENTENCE_SEP)

AlignDone == apc = "done"

C2_ExhaustedKeepsText ==
  AlignDone =>
    LET L == inLines
        S == inSentences
    IN  Len(S) < contentCount(L, Len(L)) =>
          /\ Len(correctedSrt) = Len(L)
          /\ \A k \in 1..Len(L) :
               isContentLine(L[k]) =>
                 correctedSrt[k] = IF contentCount(L, k) <= Len(S)
                                   THEN trim(S[contentCount(L, k)])
                                   ELSE L[k]

C9_Cursor ==
  [][LET L == inLines
         S == inSentences
         replaces == InLoop /\ isContentLine(L[i + 1])
                       /\ contentCount(L, i + 1) <= Len(S)
     IN  /\ (apc \in {"readSrt", "readScript"} => scriptIndex = 0)
         /\ scriptIndex' <= Len(S)
         /\ scriptIndex' \in {scriptIndex, scriptIndex + 1}
         /\ (scriptIndex' = scriptIndex + 1) <=> replaces
         /\ replaces =>
              /\ scriptIndex' = contentCount(L, i + 1)
              /\ correctedSrt' = Append(correctedSrt, trim(S[contentCount(L, i + 1)]))
    ]_vars

\* two content lines in a row each took a sentence
C9_Witness ==
  /\ apc = "loop"
  /\ i >= 2
  /\ isContentLine(srtLines[i]) /\ isContentLine(srtLines[i - 1])
  /\ scriptIndex >= 2
  /\ correctedSrt[Len(correctedSrt)] = trim(scriptSentences[scriptIndex])

(***************************************************************************)
(* Properties of convertSrtToAss (checked under SpecAss)                   *)
(*                                                                         *)
(* A flush is a call of processBlock with a non-empty textBuffer; flushes  *)
(* records each one with its window, its words (as processBlock splits     *)
(* them) and the range of assBody it appended.  wordCount is the number of *)
(* these words.                                                            *)
(***************************************************************************)
\* ceil(n / chunkSize)
CeilChunks(n) == (n + chunkSize - 1) \div chunkSize

\* the events appended by flush f, in order
eventsOf(f) == SubSeq(assBody, f.first, f.first + f.count - 1)

C4_NoOverlapInFlush ==
  \A n \in 1..Len(flushes) :
    LET f == flushes[n]
    IN  \A j \in f.first .. (f.first + f.count - 2) :
          RLe(assBody[j].end, assBody[j + 1].start)

\* a flush over a window of positive length gave three events or more
C4_Witness ==
  \E n \in 1..Len(flushes) :
    /\ flushes[n].count >= 3
    /\ RLt(flushes[n].ws, flushes[n].we)

\* C5 (as claimed): every event of a flush lies inside the window of the
\* flush, whatever the window.
C5_InsideWindow ==
  \A n \in 1..Len(flushes) :
    LET f == flushes[n]
    IN  \A j \in f.first .. (f.first + f.count - 1) :
          /\ RLe(f.ws, assBody[j].start)
          /\ RLe(assBody[j].end, f.we)

\* the windows of the timing lines of the document, in document order
isAssTiming(l) == ~matchDigits(l) /\ includes(l, ARROW)

isAssText(l) == ~matchDigits(l) /\ ~includes(l, ARROW) /\ trim(l) # <<>>

isAssBlank(l) == ~matchDigits(l) /\ ~includes(l, ARROW) /\ trim(l) = <<>>

windowOf(l) ==
  [s |-> timeStringToSeconds(trim(split(l, ARROW)[1])),
   e |-> timeStringToSeconds(trim(split(l, ARROW)[2]))]

windowsOf(L) ==
  LET timing == SelectSeq(L, isAssTiming)
  IN  [k \in 1..Len(timing) |-> windowOf(timing[k])]

\* the data-model invariant: start <= end in every block, and starts in
\* non-decreasing order
DataModelOK(W) ==
  /\ \A k \in 1..Len(W) : RLe(W[k].s, W[k].e)
  /\ \A k \in 1..(Len(W) - 1) : RLe(W[k].s, W[k + 1].s)

\* no block starts before the block before it has ended
WindowsDisjoint(W) == \A k \in 1..(Len(W) - 1) : RLe(W[k].e, W[k + 1].s)

\* no blank line stands between two text lines of the same block
BlocksUnbroken(L) ==
  \A a, c \in 1..Len(L) :
    (a < c /\ isAssText(L[a]) /\ isAssText(L[c])
       /\ \E b \in a..c : isAssBlank(L[b]))
      => \E t \in a..c : isAssTiming(L[t])

\* the events emitted so far start in non-decreasing order and none starts
\* before the one before it has ended
MonotonicOutput ==
  \A j \in 1..(Len(assBody) - 1) :
    /\ RLe(assBody[j].start, assBody[j + 1].start)
    /\ RLe(assBody[j].end, assBody[j + 1].start)

\* C6 (as claimed): for a document that satisfies the data-model invariant
\* the events of the whole output are monotonic and do not overlap.
C6_MonotonicOutput ==
  (cpc \in {"lines", "done"}) =>
    LET L == split(assSrtFile, NL)
    IN  DataModelOK(windowsOf(L)) => MonotonicOutput

\* C6 (amended): the same, for documents in which moreover no block starts
\* before the previous block has ended and no block's text is broken by a
\* blank line.
C6_MonotonicDisjoint ==
  (cpc \in {"lines", "done"}) =>
    LET L == split(assSrtFile, NL)
        W == windowsOf(L)
    IN  (DataModelOK(W) /\ WindowsDisjoint(W) /\ BlocksUnbroken(L)) => MonotonicOutput

\* two blocks with windows of positive length, one after the other, each
\* emitted events
C6_Witness ==
  /\ cpc = "done"
  /\ LET L == split(assSrtFile, NL)
         W == windowsOf(L)
     IN  DataModelOK(W) /\ WindowsDisjoint(W) /\ BlocksUnbroken(L)
  /\ Len(flushes) = 2
  /\ RLt(flushes[1].ws, flushes[1].we)
  /\ RLt(flushes[2].ws, flushes[2].we)
  /\ flushes[1].ws # flushes[2].ws
  /\ flushes[1].count >= 2

\* "one two three four five six seven eight" as processBlock splits it
EightWords == split(LineEight, SPACE)

\* C7: in a flush of wordCount words over a window with start <= end, group
\* g starts at windowStart + g*4*perWord and ends at
\* windowStart + min((g+1)*4, wordCount)*perWord; the first event starts at
\* windowStart and the last ends at windowEnd; the eight words over 1s..9s
\* give the two events 1->5 and 5->9.
C7_Proportional ==
  \A n \in 1..Len(flushes) :
    LET f == flushes[n]
        wordCount == Len(f.words)
        duration == RSub(f.we, f.ws)
        ev == eventsOf(f)
    IN  RLe(f.ws, f.we) =>
          /\ \A g \in 0..(f.count - 1) :
               /\ ev[g + 1].start =
                    RAdd(f.ws, RDiv(RMul(duration, g * 4), wordCount))
               /\ ev[g + 1].end =
                    RAdd(f.ws, RDiv(RMul(duration, Min((g + 1) * 4, wordCount)),
                                    wordCount))
          /\ f.count >= 1
          /\ ev[1].start = f.ws
          /\ ev[f.count].end = f.we
          /\ (f.ws = Num(1) /\ f.we = Num(9) /\ f.words = EightWords) =>
               /\ f.count = 2
               /\ ev[1].start = Num(1) /\ ev[1].end = Num(5)
               /\ ev[1].text = SubSeq(LineEight, 1, 18)
               /\ ev[2].start = Num(5) /\ ev[2].end = Num(9)
               /\ ev[2].text = SubSeq(LineEight, 20, 39)

\* the eight words were flushed over 1s..9s
C7_Witness ==
  \E n \in 1..Len(flushes) :
    /\ flushes[n].ws = Num(1) /\ flushes[n].we = Num(9)
    /\ flushes[n].words = EightWords
    /\ flushes[n].count = 2

(***************************************************************************)
(* Properties of timeStringToSeconds (checked under SpecTime)              *)
(***************************************************************************)
\* C10: the string HH:MM:SS,mmm parses to h*3600 + m*60 + s + ms/1000
\* seconds.
C10_TimingParse ==
  (tpc = "ret") =>
    \A h \in HourFields, m \in MinuteFields, sec \in SecondFields, ms \in MilliFields :
      timeString = SrtTime(h, m, sec, ms) =>
        seconds = Rat((h * 3600 + m * 60 + sec) * 1000 + ms, 1000)

\* a string with four non-zero fields was parsed
C10_Witness ==
  /\ tpc = "ret"
  /\ \E h \in HourFields, m \in MinuteFields, sec \in SecondFields, ms \in MilliFields :
       /\ h > 0 /\ m > 0 /\ sec > 0 /\ ms > 0
       /\ timeString = SrtTime(h, m, sec, ms)
       /\ seconds = Rat((h * 3600 + m * 60 + sec) * 1000 + ms, 1000)

(***************************************************************************)
(* More properties of convertSrtToAss                                      *)
(***************************************************************************)
\* the values the malformed timing lines install, and the state of a
\* finished run
C11_Values ==
  /\ (cpc \in {"lines", "done"} /\ lineNo >= 1) =>
       /\ lines[lineNo] = LineWinBadBoth =>
            startTimeSeconds = Num(0) /\ endTimeSeconds = Num(0)
       /\ lines[lineNo] = LineWinBadStart =>
            startTimeSeconds = Num(0) /\ endTimeSeconds = Num(9)
       /\ lines[lineNo] = LineWinBadEnd =>
            startTimeSeconds = Num(5) /\ endTimeSeconds = Num(0)
  /\ cpc = "done" =>
       /\ lineNo = Len(lines)
       /\ Len(assFile) = Len(assHeader) + 1 + Len(assBody)
       /\ (\E k \in 1..Len(lines) : isAssText(lines[k])) => Len(assBody) >= 1

\* C11: a side of a timing line that does not match the pattern becomes 0
\* (both sides: 0 and 0); the run does not stop on such a line: every step
\* of the loop goes on to the next line, the step after the last line writes
\* the document, and the text under such a window is emitted.
C11_MalformedIsZero ==
  [][/\ C11_Values'
     /\ cpc = "lines" =>
          \/ lineNo < Len(lines) /\ lineNo' = lineNo + 1 /\ cpc' = "lines"
          \/ lineNo = Len(lines) /\ cpc' = "done" /\ assFile' # <<>>
    ]_vars

\* a document whose timing line has no side that parses was written, with
\* the text under that line emitted over 0..0
C11_Witness ==
  /\ cpc = "done"
  /\ assFile # <<>>
  /\ \E k \in 1..Len(lines) : lines[k] = LineWinBadBoth
  /\ \E n \in 1..Len(flushes) :
       /\ flushes[n].at >= 1
       /\ lines[flushes[n].at] = LineFive
       /\ flushes[n].ws = Num(0) /\ flushes[n].we = Num(0)
       /\ flushes[n].count = 2

\* index of the last timing line among the first k lines of L, 0 if none
lastTimingUpTo(L, k) ==
  LET T == {q \in 1..k : isAssTiming(L[q])}
  IN  IF T = {} THEN 0 ELSE CHOOSE q \in T : \A r \in T : r <= q

\* index of the last timing or blank line among the first k lines of L
lastBreakUpTo(L, k) ==
  LET T == {q \in 1..k : isAssTiming(L[q]) \/ isAssBlank(L[q])}
  IN  IF T = {} THEN 0 ELSE CHOOSE q \in T : \A r \in T : r <= q

\* the window in force after the first k lines of L
windowAfter(L, k) ==
  IF lastTimingUpTo(L, k) = 0 THEN [s |-> Num(0), e |-> Num(0)]
  ELSE windowOf(L[lastTimingUpTo(L, k)])

\* the text lines of L, trimmed
trimmedText(L) ==
  LET T == SelectSeq(L, isAssText)
  IN  [k \in 1..Len(T) |-> trim(T[k])]

\* C18: a flush emits the text lines read since the last timing or blank
\* line, joined by single spaces in order, and times them with the window of
\* the last timing line read before the flush - also when the flush is
\* caused by the next timing line.
C18_WindowBinding ==
  [][Len(flushes') = Len(flushes) + 1 =>
       LET L == split(assSrtFile, NL)
           W == windowAfter(L, lineNo)
           texts == trimmedText(SubSeq(L, lastBreakUpTo(L, lineNo) + 1, lineNo))
           f == flushes'[Len(flushes')]
       IN  /\ f.ws = W.s /\ f.we = W.e
           /\ f.words = split(join(texts, SPACE), SPACE)
           /\ f.first = Len(assBody) + 1
           /\ Len(assBody') = Len(assBody) + f.count
           /\ assBody'[f.first].start = W.s
           /\ assBody'[Len(assBody')].end = W.e
    ]_vars

\* text of two lines under the first window was flushed by the timing line
\* of a second, different window
C18_Witness ==
  /\ Len(flushes) >= 1
  /\ lineNo >= 4
  /\ isAssTiming(lines[1]) /\ isAssText(lines[2]) /\ isAssText(lines[3])
  /\ isAssTiming(lines[4])
  /\ windowOf(lines[1]) # windowOf(lines[4])
  /\ flushes[1].at = 3
  /\ flushes[1].ws = windowOf(lines[1]).s

\* C19 (as claimed): two events emitted under the same timing line never
\* overlap, also when they come from two flushes.
C19_NoOverlapInWindow ==
  \A n, m \in 1..Len(flushes) :
    (/\ n < m
     /\ lastTimingUpTo(lines, flushes[n].at) # 0
     /\ lastTimingUpTo(lines, flushes[n].at) = lastTimingUpTo(lines, flushes[m].at))
      => \A a \in flushes[n].first .. (flushes[n].first + flushes[n].count - 1) :
           \A b \in flushes[m].first .. (flushes[m].first + flushes[m].count - 1) :
             RLe(assBody[a].end, assBody[b].start)

\* C20: lastEndTime is 0 whenever processBlock can be entered, so every
\* flush found it 0 and its first event starts at the window start.
C20_LastEndZero ==
  /\ (cpc \in {"read", "lines", "done"}) => lastEndTime = Num(0)
  /\ \A n \in 1..Len(flushes) :
       /\ flushes[n].lastAtEntry = Num(0)
       /\ assBody[flushes[n].first].start = flushes[n].ws

\* the first emitting flush came after a flush with nothing to emit (the
\* timing line on line 1) and ended after 0; a second emitting flush came
\* after it and found lastEndTime 0 again
C20_Witness ==
  /\ Len(flushes) >= 2
  /\ isAssTiming(lines[1])
  /\ flushes[1].at >= 2
  /\ RLt(Num(0), assBody[flushes[1].first + flushes[1].count - 1].end)
  /\ flushes[2].lastAtEntry = Num(0)

\* C16: the written file is the header, once and first, an empty line, and
\* then the dialogue events only; the event texts, joined in file order, are
\* the text lines of the document in document order; every event has style
\* TikTokStyle and the fade tag.
C16_DocumentOrder ==
  cpc = "done" =>
    LET n == Len(assHeader)
        L == split(assSrtFile, NL)
        body == SubSeq(assFile, n + 2, Len(assFile))
    IN  /\ Len(assFile) >= n + 1
        /\ assFile[1] = textLine("[Script Info]")
        /\ assFile[n] =
             textLine("Format: Layer, Start, End, Style, MarginL, MarginR, MarginV, Effect, Text")
        /\ assFile[n + 1] = textLine("")
        /\ \A j \in 1..(n + 1) : assFile[j].kind = "text"
        /\ Cardinality({j \in 1..Len(assFile) : assFile[j] = textLine("[Script Info]")}) = 1
        /\ Cardinality({j \in 1..Len(assFile) : assFile[j] = textLine("[Events]")}) = 1
        /\ \A j \in 1..Len(body) :
             /\ body[j].kind = "Dialogue"
             /\ body[j].style = "TikTokStyle"
             /\ body[j].tag = "{\\fad(200,200)}"
        /\ join([j \in 1..Len(body) |-> body[j].text], SPACE)
             = join(trimmedText(L), SPACE)

\* a file with the events of two blocks of different text was written
C16_Witness ==
  /\ cpc = "done"
  /\ Len(flushes) >= 2
  /\ flushes[1].words # flushes[2].words
  /\ flushes[1].count >= 2
  /\ Len(assFile) = Len(assHeader) + 1 + flushes[1].count + flushes[2].count

(***************************************************************************)
(* Properties of secondsToAssTime (checked under SpecTime)                 *)
(***************************************************************************)
COLON == <<":">>

DOT == <<".">>

\* the duration a rendered "H:MM:SS.cc" denotes
assSeconds(str) ==
  LET parts == split(str, COLON)
      sc == split(parts[3], DOT)
  IN  Rat((parseInt(parts[1]) * 3600 + parseInt(parts[2]) * 60 + parseInt(sc[1])) * 100
            + parseInt(sc[2]), 100)

\* |x - y|
RDist(x, y) == IF RLt(x, y) THEN RSub(y, x) ELSE RSub(x, y)

\* the milliseconds field of the timing string given
msOf(str) == LET c == split(str, <<",">>) IN parseInt(c[2])

\* C12 (as claimed): the rendered timestamp denotes the duration parsed,
\* up to floating-point tolerance (here: a millionth of a second).
C12_RoundTripExact ==
  tpc = "fmt" => RLe(RDist(assSeconds(assTime), seconds), Rat(1, 1000000))

\* C12 (amended): the rendered timestamp denotes the duration parsed rounded
\* to a hundredth of a second: it is within 5 ms of it, and equal to it when
\* the milliseconds are a multiple of 10.
C12_RoundTripCentis ==
  tpc = "fmt" =>
    /\ RLe(RDist(assSeconds(assTime), seconds), Rat(5, 1000))
    /\ msOf(timeString) % 10 = 0 => assSeconds(assTime) = seconds

\* a timing with hours, minutes, seconds and 40 ms was rendered exactly, and
\* so was one with 999 ms, 1 ms off
C12_Witness ==
  /\ tpc = "fmt"
  /\ \/ /\ timeString = SrtTime(1, 7, 30, 40)
        /\ assSeconds(assTime) = seconds
     \/ /\ timeString = SrtTime(1, 7, 30, 999)
        /\ RDist(assSeconds(assTime), seconds) = Rat(1, 1000)

\* x mod k for a non-negative rational x and a positive integer k
RMod(x, k) == RSub(x, Num(k * RFloor(RDiv(x, k))))

\* C13: the rendered string is H:MM:SS.cc with H = floor(t/3600) without
\* padding, MM = floor((t mod 3600)/60) on two digits, and SS.cc = t mod 60
\* with two decimals on at least five characters; 5.5 gives 0:00:05.50.
C13_AssTimeFormat ==
  tpc = "fmt" =>
    LET t == seconds
        parts == split(assTime, COLON)
        sc == split(parts[3], DOT)
    IN  /\ Len(parts) = 3
        /\ \A k \in 1..Len(parts[1]) : parts[1][k] \in Digits
        /\ parseInt(parts[1]) = RFloor(RDiv(t, 3600))
        /\ Len(parts[1]) = 1 \/ parts[1][1] # "0"
        /\ Len(parts[2]) = 2
        /\ \A k \in 1..2 : parts[2][k] \in Digits
        /\ parseInt(parts[2]) = RFloor(RDiv(RMod(t, 3600), 60))
        /\ Len(parts[3]) >= 5
        /\ Len(sc) = 2
        /\ Len(sc[2]) = 2
        /\ Len(sc[1]) >= 2
        /\ \A k \in 1..Len(sc[1]) : sc[1][k] \in Digits
        /\ \A k \in 1..2 : sc[2][k] \in Digits
        /\ RLe(RDist(Rat(parseInt(sc[1]) * 100 + parseInt(sc[2]), 100), RMod(t, 60)),
               Rat(1, 200))
        /\ t = Rat(11, 2) => assTime = <<"0", ":", "0", "0", ":", "0", "5", ".", "5", "0">>

\* 5.5 seconds were rendered
C13_Witness ==
  /\ tpc = "fmt"
  /\ seconds = Rat(11, 2)
  /\ assTime = <<"0", ":", "0", "0", ":", "0", "5", ".", "5", "0">>

(***************************************************************************)
(* Properties of two calls of correctSubtitles (checked under              *)
(* SpecAlignTwice)                                                         *)
(***************************************************************************)
\* C14: a second call on the same transcript and script starts with the
\* whole sentence sequence and cursor 0, whatever the first call left, and
\* writes what the first call wrote.
C14_NoStateAcrossCalls ==
  calls = 2 =>
    /\ (apc \in {"loop", "done"}) => scriptSentences = split(scriptFile, SENTENCE_SEP)
    /\ (apc = "loop" /\ i = 0) => scriptIndex = 0 /\ correctedSrt = <<>>
    /\ apc = "done" => correctedFile = firstFile

\* the first call had used up its sentences and dropped a content line; the
\* second call has written the same file
C14_Witness ==
  /\ calls = 2
  /\ apc = "done"
  /\ scriptIndex = Len(scriptSentences)
  /\ contentCount(split(srtFile, NL), Len(split(srtFile, NL))) > Len(scriptSentences)
  /\ firstFile # <<>>
  /\ correctedFile = firstFile

(***************************************************************************)
(* Properties of two concurrent runs (checked under SpecPar)               *)
(***************************************************************************)
\* the two functions agree with the step-by-step runs
AlignOfAgrees ==
  apc = "done" => correctedFile = correctSubtitlesOf(srtFile, scriptFile)

CompileOfAgrees ==
  cpc = "done" => assFile = convertSrtToAssOf(assSrtFile)

\* the styled document of run r, were it alone
ownStyled(r) == convertSrtToAssOf(correctSubtitlesOf(parSrt[r], parScript[r]))

\* C15 (as claimed): each run writes, and burns into its video, the styled
\* document of its own transcript and script, under every interleaving.
C15_ParallelSafe ==
  \A r \in Runs :
    /\ (ppc[r] \in {"burn", "done"}) => styled[r] = ownStyled(r)
    /\ ppc[r] = "done" => burned[r] = ownStyled(r)

(***************************************************************************)
(* Properties of createFinalVod's cleanup (checked under SpecVod)          *)
(***************************************************************************)
\* C17 (as claimed): once createFinalVod has returned and the unlinks it
\* started have completed, none of the files it produced is left except the
\* video it returned, which is.
C17_CleanupComplete ==
  (vpc = "returned" /\ unlinking = {}) =>
    /\ returned \in files
    /\ \A f \in produced : f # returned => f \notin files

(***************************************************************************)
(* Frame, chunking and ordering properties of convertSrtToAss (checked     *)
(* under SpecAss)                                                          *)
(***************************************************************************)
\* C21: an index line changes neither the events, the accumulator,
\* lastEndTime nor the window; a flush asked for while the accumulator is
\* empty (blank line, timing line, end of the document) changes neither the
\* events, the accumulator nor lastEndTime; after a flush that emits, the
\* accumulator is empty.
C21_NoOpFrame ==
  [][/\ (cpc = "lines" /\ lineNo < Len(lines) /\ matchDigits(lines[lineNo + 1])) =>
          UNCHANGED <<assBody, textBuffer, lastEndTime, startTimeSeconds,
                      endTimeSeconds, flushes>>
     /\ (/\ cpc = "lines"
         /\ textBuffer = <<>>
         /\ \/ ~(lineNo < Len(lines))
            \/ isAssBlank(lines[lineNo + 1])
            \/ isAssTiming(lines[lineNo + 1])) =>
          UNCHANGED <<assBody, textBuffer, lastEndTime, flushes>>
     /\ Len(assBody') > Len(assBody) =>
          /\ textBuffer # <<>>
          /\ textBuffer' = <<>>
          /\ Len(flushes') = Len(flushes) + 1
    ]_vars

\* an index line was read while text was pending, that text was then
\* emitted, and the flush at the end of the document found nothing
C21_Witness ==
  /\ cpc = "done"
  /\ Len(lines) = 4
  /\ isAssText(lines[1]) /\ matchDigits(lines[2]) /\ isAssText(lines[3])
  /\ isAssBlank(lines[4])
  /\ Len(flushes) = 1
  /\ flushes[1].at = 3
  /\ textBuffer = <<>>

\* the word groups of a sequence of events, one after the other
RECURSIVE groupsConcat(_)
groupsConcat(ev) ==
  IF ev = <<>> THEN <<>> ELSE split(ev[1].text, SPACE) \o groupsConcat(Tail(ev))

\* C26: the word groups of the events of a flush, one after the other, are
\* the accumulated words; every group but the last has 4 words and the last
\* has 1 to 4.
C26_ChunksPartition ==
  \A n \in 1..Len(flushes) :
    LET f == flushes[n]
        ev == eventsOf(f)
    IN  /\ f.count >= 1
        /\ groupsConcat(ev) = f.words
        /\ \A g \in 1..(f.count - 1) : Len(split(ev[g].text, SPACE)) = chunkSize
        /\ Len(split(ev[f.count].text, SPACE)) \in 1..chunkSize

\* eight words were emitted in two groups, and six (five and the empty one
\* between two spaces) in a group of four and a group of two
C26_Witness ==
  \E n, m \in 1..Len(flushes) :
    /\ flushes[n].words = split(LineEight, SPACE)
    /\ flushes[n].count = 2
    /\ Len(flushes[m].words) = 6
    /\ flushes[m].count = 2
    /\ Len(split(assBody[flushes[m].first + 1].text, SPACE)) = 2

\* C27 (as claimed): every event has start <= end.
C27_StartLeEnd ==
  \A j \in 1..Len(assBody) : RLe(assBody[j].start, assBody[j].end)

\* the maximal whitespace-free tokens of s, in order
RECURSIVE tokensOf(_)
tokensOf(s) ==
  LET t == trim(s)
      ws == {p \in 1..Len(t) : t[p] \in WhiteSpace}
  IN  IF t = <<>> THEN <<>>
      ELSE IF ws = {} THEN <<t>>
      ELSE LET p == CHOOSE q \in ws : \A r \in ws : q <= r
           IN  <<SubSeq(t, 1, p - 1)>> \o tokensOf(SubSeq(t, p + 1, Len(t)))

\* C22 (as claimed): the words of every flush are the maximal
\* whitespace-free tokens of the accumulated text, so none is empty.
C22_WhitespaceTokens ==
  \A n \in 1..Len(flushes) :
    LET f == flushes[n]
    IN  /\ \A k \in 1..Len(f.words) : f.words[k] # <<>>
        /\ f.words = tokensOf(join(f.words, SPACE))

\* the texts of the dialogue events of the written file, in file order
writtenTexts ==
  LET body == SubSeq(assFile, Len(assHeader) + 2, Len(assFile))
  IN  [j \in 1..Len(body) |-> body[j].text]

\* C29: when the document is finished the accumulator is empty and the
\* words of the events of the written file, in order, are the words of the
\* text lines of the document, in order, each once - the text before the
\* first timing line and the last block without a blank line after it
\* included.
C29_AllEmitted ==
  cpc = "done" =>
    /\ textBuffer = <<>>
    /\ Len(assFile) = Len(assHeader) + 1 + Len(assBody)
    /\ tokensOf(join(writtenTexts, SPACE))
         = tokensOf(join(trimmedText(split(assSrtFile, NL)), SPACE))
    /\ \A k \in 1..Len(lines) :
         isAssText(lines[k]) =>
           \E n \in 1..Len(flushes) :
             /\ flushes[n].at >= k
             /\ lastBreakUpTo(lines, flushes[n].at) < k

\* a finished document with text before its first timing line and a last
\* text line with no blank line after it
C29_Witness ==
  /\ cpc = "done"
  /\ Len(lines) >= 3
  /\ isAssText(lines[1])
  /\ isAssTiming(lines[2])
  /\ isAssText(lines[Len(lines)])
  /\ Len(flushes) = 2
  /\ flushes[2].at = Len(lines)

(***************************************************************************)
(* The seconds field secondsToAssTime renders (checked under SpecTime)     *)
(***************************************************************************)
\* C28 (as claimed): the seconds field rendered is between 00.00 and 59.99.
C28_SecondsBelow60 ==
  tpc = "fmt" =>
    LET sc == split(split(assTime, COLON)[3], DOT)
    IN  parseInt(sc[1]) * 100 + parseInt(sc[2]) <= 5999

(***************************************************************************)
(* The aligner's output as the compiler's input (checked under SpecAlign)  *)
(***************************************************************************)
\* C30 (as claimed): every line written in place of a content line is a
\* text line for the compiler, and the two loops classify every input line
\* alike (timing, content, and index or blank).
C30_SameClassification ==
  AlignDone =>
    LET L == inLines
        M == Len(inSentences)
    IN  /\ \A q \in 1..Len(L) :
             /\ isTimingLine(L[q]) <=> isAssTiming(L[q])
             /\ isContentLine(L[q]) <=> isAssText(L[q])
             /\ isPassLine(L[q]) <=> (matchDigits(L[q]) \/ isAssBlank(L[q]))
        /\ \A q \in 1..Len(L) :
             (isContentLine(L[q]) /\ contentCount(L, q) <= M) =>
               LET written == split(correctedSrt[q], NL)
               IN  \A k \in 1..Len(written) : isAssText(written[k])

(***************************************************************************)
(* Order and failures of createFinalVod (checked under SpecVod)            *)
(***************************************************************************)
\* the steps in the order claimed
PipelineOrder ==
  <<"download", "resize", "probe", "mix", "cut", "merge", "subtitles",
    "correctSubtitles", "convertSrtToAss", "burn">>

\* C23: the steps start in the order download, resize, probe, mix, cut,
\* merge, transcription, alignment, conversion, burn-in, each once and only
\* when all the steps before it have completed; once a step has failed no
\* step starts, the call rejects with that error, and the CLI prints it and
\* exits with code 1.
C23_OrderAndFailStop ==
  [][/\ started' # started =>
          /\ Len(started) < Len(PipelineOrder)
          /\ started' = Append(started, PipelineOrder[Len(started) + 1])
          /\ completed = started
          /\ error = ""
     /\ completed' # completed =>
          /\ completed' = SubSeq(PipelineOrder, 1, Len(completed) + 1)
          /\ started' = completed'
     /\ vpc' = "failed" => error' # "" /\ returned' = "" /\ unlinking' = {}
     /\ vpc = "failed" =>
          /\ vpc' = "exited"
          /\ reported' = error
          /\ exitCode' = 1
          /\ UNCHANGED <<started, completed, files, produced, unlinking>>
     /\ vpc = "exited" => UNCHANGED vodVars
     /\ vpc' = "returned" => completed' = PipelineOrder /\ error' = ""
    ]_vars

\* the cut failed after four steps had completed: nothing else was started
\* and the CLI exited with code 1
C23_Witness ==
  /\ vpc = "exited"
  /\ exitCode = 1
  /\ reported = "cut"
  /\ completed = <<"download", "resize", "probe", "mix">>
  /\ started = <<"download", "resize", "probe", "mix", "cut">>

\* C24: a read failure in correctSubtitles or in convertSrtToAss rejects
\* with the file of that function not written by it; a write failure
\* rejects; in each promise resolve and reject are called once in all, and
\* never both.
C24_IoFailures ==
  LET ran(h) == {h[k] : k \in 1..Len(h)}
      errorsOf(f) == IF f = "correctSubtitles"
                     THEN {"correctSubtitles: srt unreadable",
                           "correctSubtitles: script unreadable",
                           "correctSubtitles: write failed"}
                     ELSE {"convertSrtToAss: srt unreadable",
                           "convertSrtToAss: write failed"}
  IN  /\ \A f \in {"correctSubtitles", "convertSrtToAss"} :
           /\ settles[f].resolve + settles[f].reject <= 1
           /\ settles[f].resolve = 1 <=> f \in ran(completed)
           /\ settles[f].reject = 1 <=> error \in errorsOf(f)
           /\ error \in errorsOf(f) => vpc \in {"failed", "exited"}
      /\ error \in {"correctSubtitles: srt unreadable",
                    "correctSubtitles: script unreadable"} =>
           correctedSubtitlePath \notin produced
      /\ error = "convertSrtToAss: srt unreadable" => styledSubtitlePath \notin produced
      /\ settles["correctSubtitles"].reject = 1 =>
           /\ "convertSrtToAss" \notin ran(started)
           /\ styledSubtitlePath \notin produced
      /\ settles["convertSrtToAss"].reject = 1 => "burn" \notin ran(started)

\* the script could not be read: correctSubtitles rejected without writing
C24_Witness ==
  /\ vpc = "failed"
  /\ error = "correctSubtitles: script unreadable"
  /\ settles["correctSubtitles"] = [resolve |-> 0, reject |-> 1]
  /\ correctedSubtitlePath \notin files

\* C25: without the voice file the call fails before the download: no step
\* is started, no file is written and no unlink is started.
C25_VoiceMissing ==
  voicePath \notin files =>
    /\ vpc \in {"dirs", "check", "failed", "exited"}
    /\ started = <<>>
    /\ produced = {}
    /\ unlinking = {}
    /\ returned = ""
    /\ (vpc \in {"failed", "exited"}) => error = "Fichier voix introuvable"

\* the call failed for want of the voice file
C25_Witness ==
  /\ voicePath \notin files
  /\ vpc = "failed"
  /\ error = "Fichier voix introuvable"
  /\ started = <<>>

====
